---------------------------- MODULE Spec2Model ----------------------------
(***************************************************************************)
(* Model of src/src/app/app.component.ts (AppComponent): the camera start, *)
(* the setInterval detection loop, the per-frame pipeline (sharpness gate, *)
(* contour loop, candidate selection) and the stabilisation state machine. *)
(*                                                                         *)
(* JavaScript runs every callback to completion, so the timer callback and *)
(* everything it calls (captureFrame, processFrame, measureSharpness,      *)
(* stabilizeDetection, drawFinalRect, capturePhoto) is one action.         *)
(*                                                                         *)
(* An optional value (any | null) is a sequence of length 0 or 1.          *)
(* A cv.Mat handle is a pair <<name, index>>.                              *)
(***************************************************************************)
EXTENDS Integers, Sequences, FiniteSets, TLC

(***************************************************************************)
(* Bounds of the model.                                                    *)
(***************************************************************************)
\* Stands for the literal 12000 of startDetectionLoop (line 82): the cap on
\* the iteration counter, scaled down so that the capped branch is reached.
MaxIterations == 7
\* Most contours findContours returns for one frame.
MaxContours == 2

(***************************************************************************)
(* Program constants (fields of AppComponent and locals of areRectsSimilar)*)
(***************************************************************************)
containerWidth == 384
containerHeight == 272
minFocusThreshold == 180
\* minAreaFraction = 0.6 and maxAreaFraction = 0.9, in tenths
minAreaFractionTenths == 6
maxAreaFractionTenths == 9
\* minAspectRatio = 1.4 and maxAspectRatio = 1.7, in tenths
minAspectRatioTenths == 14
maxAspectRatioTenths == 17
stabilityThreshold == 5
positionThreshold == 10
sizeThreshold == 20
\* the id setInterval returns: a positive integer, truthy in `if (this.detectionTimer)`
TimerId == 1

NULL == <<>>
Some(v) == <<v>>
Abs(n) == IF n < 0 THEN -n ELSE n

Rect(x, y, w, h) == [x |-> x, y |-> y, width |-> w, height |-> h]

(***************************************************************************)
(* Inputs: what the camera and OpenCV hand to the program.                 *)
(***************************************************************************)
\* videoWidth x videoHeight of the stream once play() resolved
VideoSizes == { <<384, 272>>, <<768, 544>> }

\* lap.data64F of a frame: the Laplacian response (empty, variance 169,
\* variance exactly 180)
LapPool == { <<>>, <<0, 26>>, <<15, 15, -15, -15, 0>> }

\* A contour as the loop sees it: the height of approx.size(), the answer of
\* isContourConvex(approx) and boundingRect(approx) in native pixels.  Every
\* coordinate is even, so the division by a scale of 1 or 2 is exact.
\* The three accepted rectangles of a 384x272 stream: the second is similar
\* to the first and to the third, the third is exactly positionThreshold
\* to the right of the first.
Contour(v, c, r) == [vertices |-> v, convex |-> c, rect |-> r]
ContourPool ==
    { Contour(3, TRUE,  Rect(20, 20, 340, 220)),
      Contour(4, TRUE,  Rect(20, 20, 340, 220)),
      Contour(4, TRUE,  Rect(26, 24, 350, 226)),
      Contour(4, TRUE,  Rect(30, 20, 340, 220)),
      Contour(4, TRUE,  Rect(40, 40, 680, 440)) }

ContourLists == UNION { [1..n -> ContourPool] : n \in 0..MaxContours }

\* More bounding rectangles, for the contour loop taken alone: on the edges
\* of the container and 2 pixels outside, aspect ratio exactly 1.4 and 1.7
\* and just outside, area fraction just inside and just outside 0.6 and 0.9
\* (0.6 * 384 * 272 = 62668.8 and 0.9 * 384 * 272 = 94003.2 are no products
\* of integers), one of the same area as the first of ContourPool, and a
\* quadrilateral that is not convex.
GeometryPool ==
    ContourPool \cup
    { Contour(4, FALSE, Rect(20, 20, 340, 220)),
      Contour(4, TRUE, Rect(34, 22, 350, 250)),
      Contour(4, TRUE, Rect(0, 0, 340, 200)),
      Contour(4, TRUE, Rect(36, 22, 350, 250)),
      Contour(4, TRUE, Rect(0, 0, 312, 200)),
      Contour(4, TRUE, Rect(0, 0, 314, 200)),
      Contour(4, TRUE, Rect(0, 0, 380, 248)),
      Contour(4, TRUE, Rect(0, 0, 378, 248)),
      Contour(4, TRUE, Rect(0, 0, 348, 250)),
      Contour(4, TRUE, Rect(0, 0, 342, 200)),
      Contour(4, TRUE, Rect(22, 22, 340, 220)) }

GeometryLists == UNION { [1..n -> GeometryPool] : n \in 0..MaxContours }

(***************************************************************************)
(* State.                                                                  *)
(***************************************************************************)
VARIABLES
    phase,                    \* "created", "running" (startCamera resolved), "failed" (it threw)
    scaleX, scaleY,           \* this.scaleX, this.scaleY
    detectionTimer,           \* this.detectionTimer: NULL or Some(id)
    intervalActive,           \* the browser's side: the interval is scheduled
    iterations,               \* this.iterations
    previousRect,             \* this.previousRect: NULL or Some(rect)
    consecutiveStableFrames,  \* this.consecutiveStableFrames
    feedback,                 \* what #feedbackMessage shows
    captureLog,               \* one entry per drawFinalRect + capturePhoto
    clearCalls,               \* number of clearInterval calls
    allocLog,                 \* handles created during the last timer callback
    deleteLog,                \* handles on which delete() was called during it
    tick,                     \* what the last timer callback did
    run,                      \* length of the current run of accepted ticks
    probe                     \* SelectSpec only: one frame's contours and the loop's result

vars == << phase, scaleX, scaleY, detectionTimer, intervalActive, iterations,
           previousRect, consecutiveStableFrames, feedback, captureLog,
           clearCalls, allocLog, deleteLog, tick, run, probe >>

Init ==
    /\ phase = "created"
    /\ scaleX = 1
    /\ scaleY = 1
    /\ detectionTimer = NULL
    /\ intervalActive = FALSE
    /\ iterations = 0
    /\ previousRect = NULL
    /\ consecutiveStableFrames = 0
    /\ feedback = "none"
    /\ captureLog = <<>>
    /\ clearCalls = 0
    /\ allocLog = <<>>
    /\ deleteLog = <<>>
    /\ tick = [outcome |-> "none", rect |-> NULL, captured |-> FALSE, case |-> "none",
               sharpness |-> NULL]
    /\ run = 0
    /\ probe = [contours |-> <<>>, largestRect |-> NULL, done |-> FALSE]


(***************************************************************************)
(* measureSharpness (lines 242-269): the population variance of the        *)
(* Laplacian response, as the exact fraction num/den:                      *)
(*   variance = (sum of (d - mean)^2) / n = (n * sum d^2 - (sum d)^2) / n^2*)
(* and 0 when the data is empty.                                           *)
(***************************************************************************)
RECURSIVE SumOf(_)
SumOf(data) == IF data = <<>> THEN 0 ELSE Head(data) + SumOf(Tail(data))

RECURSIVE SumOfSquares(_)
SumOfSquares(data) ==
    IF data = <<>> THEN 0 ELSE Head(data) * Head(data) + SumOfSquares(Tail(data))

measureSharpness(data) ==
    IF Len(data) = 0
    THEN [num |-> 0, den |-> 1]
    ELSE [num |-> Len(data) * SumOfSquares(data) - SumOf(data) * SumOf(data),
          den |-> Len(data) * Len(data)]

\* mutant: the sharpness gate lets every frame through
NoGate(sharpness) == FALSE

\* mutant: <= in place of <
IsBlurryInclusive(sharpness) == sharpness.num <= minFocusThreshold * sharpness.den

\* line 126: sharpnessValue < this.minFocusThreshold
IsBlurry(sharpness) == sharpness.num < minFocusThreshold * sharpness.den

(***************************************************************************)
(* The geometry tests of the contour loop (lines 171-206).                 *)
(***************************************************************************)
\* lines 176-179: native pixels divided by the scale
ScaledRect(rect, sx, sy) ==
    Rect(rect.x \div sx, rect.y \div sy, rect.width \div sx, rect.height \div sy)

\* line 171
IsQuadrilateral(contour) == contour.vertices = 4 /\ contour.convex

\* lines 182-186
isInsideContainer(s) ==
    /\ s.x >= 0
    /\ s.y >= 0
    /\ s.x + s.width <= containerWidth
    /\ s.y + s.height <= containerHeight

\* line 195
RectArea(s) == s.width * s.height

\* mutant: > in place of >= on the minimal aspect ratio
AspectStrict(s) ==
    /\ 10 * RectArea(s) >= minAreaFractionTenths * containerWidth * containerHeight
    /\ 10 * RectArea(s) <= maxAreaFractionTenths * containerWidth * containerHeight
    /\ 10 * s.width > minAspectRatioTenths * s.height
    /\ 10 * s.width <= maxAspectRatioTenths * s.height

\* mutant: the minimal area fraction is not tested
NoMinArea(s) ==
    /\ 10 * RectArea(s) <= maxAreaFractionTenths * containerWidth * containerHeight
    /\ 10 * s.width >= minAspectRatioTenths * s.height
    /\ 10 * s.width <= maxAspectRatioTenths * s.height

\* lines 196-204: areaRatio and aspectRatio against their bounds, with the
\* divisions multiplied out (areaRatio = rectArea / (containerWidth *
\* containerHeight), aspectRatio = scaledWidth / scaledHeight)
AreaAndAspectOk(s) ==
    /\ 10 * RectArea(s) >= minAreaFractionTenths * containerWidth * containerHeight
    /\ 10 * RectArea(s) <= maxAreaFractionTenths * containerWidth * containerHeight
    /\ 10 * s.width >= minAspectRatioTenths * s.height
    /\ 10 * s.width <= maxAspectRatioTenths * s.height

\* mutant: >= in place of > on maxArea, so that the last of equal areas wins
ContourStepKeepsLast(acc, i, contour, sx, sy) ==
    LET approx == << "approx", i >>
        made   == [acc EXCEPT !.allocs = Append(@, approx)]
        s      == ScaledRect(contour.rect, sx, sy)
    IN  IF IsQuadrilateral(contour)
        THEN IF ~isInsideContainer(s)
             THEN [made EXCEPT !.deletes = Append(@, approx)]
             ELSE IF AreaAndAspectOk(s) /\ RectArea(s) >= acc.maxArea
                  THEN [made EXCEPT !.largestRect = Some(s),
                                    !.maxArea = RectArea(s),
                                    !.deletes = Append(@, approx)]
                  ELSE [made EXCEPT !.deletes = Append(@, approx)]
        ELSE made

\* One pass of the loop body (lines 163-217) on contour i.  acc carries
\* largestRect, maxArea and the handles created and deleted so far.
ContourStep(acc, i, contour, sx, sy) ==
    LET approx == << "approx", i >>
        made   == [acc EXCEPT !.allocs = Append(@, approx)]
        s      == ScaledRect(contour.rect, sx, sy)
    IN  IF IsQuadrilateral(contour)
        THEN IF ~isInsideContainer(s)
             THEN [made EXCEPT !.deletes = Append(@, approx)]
             ELSE IF AreaAndAspectOk(s) /\ RectArea(s) > acc.maxArea
                  THEN [made EXCEPT !.largestRect = Some(s),
                                    !.maxArea = RectArea(s),
                                    !.deletes = Append(@, approx)]
                  ELSE [made EXCEPT !.deletes = Append(@, approx)]
        ELSE made

\* lines 159-218
RECURSIVE ContourLoop(_, _, _, _, _)
ContourLoop(contours, i, acc, sx, sy) ==
    IF i > Len(contours)
    THEN acc
    ELSE ContourLoop(contours, i + 1, ContourStep(acc, i, contours[i], sx, sy), sx, sy)

(***************************************************************************)
(* stabilizeDetection and areRectsSimilar (lines 275-315).                 *)
(***************************************************************************)
\* mutant: no two rectangles ever count as similar
NeverSimilar(rect1, rect2) == FALSE

\* mutant: positionThreshold used for the sizes as well
SimilarSizeByPosition(rect1, rect2) ==
    /\ Abs(rect1.x - rect2.x) < positionThreshold
    /\ Abs(rect1.y - rect2.y) < positionThreshold
    /\ Abs(rect1.width - rect2.width) < positionThreshold
    /\ Abs(rect1.height - rect2.height) < positionThreshold

areRectsSimilar(rect1, rect2) ==
    /\ Abs(rect1.x - rect2.x) < positionThreshold
    /\ Abs(rect1.y - rect2.y) < positionThreshold
    /\ Abs(rect1.width - rect2.width) < sizeThreshold
    /\ Abs(rect1.height - rect2.height) < sizeThreshold

\* mutant: the first candidate does not count (the !this.previousRect test lost)
StreakFirstAtZero(prev, currentRect, count) ==
    IF prev # NULL /\ areRectsSimilar(prev[1], currentRect)
    THEN count + 1
    ELSE 0

\* lines 276-283: the counter after the candidate is compared
StreakAfter(prev, currentRect, count) ==
    IF prev = NULL \/ areRectsSimilar(prev[1], currentRect)
    THEN count + 1
    ELSE 0

\* mutant: > in place of >=
StrictlyAbove(count) == count > stabilityThreshold

\* line 287
IsStable(count) == count >= stabilityThreshold

\* mutant: the timer id is taken for falsy, so the interval is never cleared
NeverSet(timer) == FALSE

\* line 296: if (this.detectionTimer)
TimerIsSet(timer) == timer # NULL

\* mutant: <= in place of <
LoopContinuesOneMore(it) == it <= MaxIterations

\* line 82: this.iterations < 12000
LoopContinues(it) == it < MaxIterations

(***************************************************************************)
(* History variables tick and run: what the similarity of two rectangles   *)
(* means, stated apart from areRectsSimilar.                               *)
(***************************************************************************)
Near(a, b) ==
    /\ a.x - b.x < 10 /\ b.x - a.x < 10
    /\ a.y - b.y < 10 /\ b.y - a.y < 10
    /\ a.width - b.width < 20 /\ b.width - a.width < 20
    /\ a.height - b.height < 20 /\ b.height - a.height < 20

\* which case of the tracker's transition an accepted rectangle r falls in
CaseOf(r) ==
    IF previousRect = NULL THEN "first"
    ELSE IF Near(previousRect[1], r) THEN "similar" ELSE "dissimilar"

\* run: how many of the latest timer callbacks, up to this one, each yielded
\* an accepted rectangle, each after the first near the one of the callback
\* before it
RunAfterAccept(r) ==
    IF tick.rect # NULL /\ Near(tick.rect[1], r) THEN run + 1 ELSE 1

(***************************************************************************)
(* startCamera (lines 46-74), which ngOnInit calls once.                   *)
(***************************************************************************)
\* getUserMedia and play() resolved: the scale is set and the loop started
StartCameraOk ==
    /\ phase = "created"
    /\ \E size \in VideoSizes :
          /\ scaleX' = size[1] \div containerWidth
          /\ scaleY' = size[2] \div containerHeight
    /\ phase' = "running"
    /\ detectionTimer' = Some(TimerId)
    /\ intervalActive' = TRUE
    /\ UNCHANGED << iterations, previousRect, consecutiveStableFrames, feedback,
                    captureLog, clearCalls, allocLog, deleteLog, tick, run,
                    probe >>

\* getUserMedia or play() threw: the catch block shows the error
StartCameraFail ==
    /\ phase = "created"
    /\ phase' = "failed"
    /\ feedback' = "cameraError"
    /\ UNCHANGED << scaleX, scaleY, detectionTimer, intervalActive, iterations,
                    previousRect, consecutiveStableFrames, captureLog,
                    clearCalls, allocLog, deleteLog, tick, run, probe >>

(***************************************************************************)
(* The setInterval callback (lines 80-90), one action per path through it. *)
(***************************************************************************)
\* lines 87-89: the counter reached the cap, the interval is cleared
TickCap ==
    /\ intervalActive
    /\ ~LoopContinues(iterations + 1)
    /\ iterations' = iterations + 1
    /\ intervalActive' = FALSE
    /\ clearCalls' = clearCalls + 1
    /\ allocLog' = <<>>
    /\ deleteLog' = <<>>
    /\ tick' = [outcome |-> "cap", rect |-> tick.rect, captured |-> FALSE,
                case |-> "none", sharpness |-> NULL]
    /\ UNCHANGED << phase, scaleX, scaleY, detectionTimer, previousRect,
                    consecutiveStableFrames, feedback, captureLog, run, probe >>

\* mutant: a failed frame capture resets the streak
TickNoFrameResets ==
    /\ intervalActive
    /\ LoopContinues(iterations + 1)
    /\ iterations' = iterations + 1
    /\ allocLog' = <<>>
    /\ deleteLog' = <<>>
    /\ tick' = [outcome |-> "noframe", rect |-> NULL, captured |-> FALSE,
                case |-> "none", sharpness |-> NULL]
    /\ run' = 0
    /\ consecutiveStableFrames' = 0
    /\ UNCHANGED << phase, scaleX, scaleY, detectionTimer, intervalActive,
                    previousRect, feedback, captureLog, clearCalls, probe >>

\* lines 83-84 with captureFrame returning null (no 2d context, line 102)
TickNoFrame ==
    /\ intervalActive
    /\ LoopContinues(iterations + 1)
    /\ iterations' = iterations + 1
    /\ allocLog' = <<>>
    /\ deleteLog' = <<>>
    /\ tick' = [outcome |-> "noframe", rect |-> NULL, captured |-> FALSE,
                case |-> "none", sharpness |-> NULL]
    /\ run' = 0
    /\ UNCHANGED << phase, scaleX, scaleY, detectionTimer, intervalActive,
                    previousRect, consecutiveStableFrames, feedback,
                    captureLog, clearCalls, probe >>

\* mutant: a blurry frame clears previousRect
TickBlurryForgets ==
    /\ intervalActive
    /\ LoopContinues(iterations + 1)
    /\ \E lap \in LapPool :
          /\ IsBlurry(measureSharpness(lap))
          /\ iterations' = iterations + 1
          /\ feedback' = "blurry"
          /\ allocLog' = << <<"frame", 0>>, <<"gray", 0>>, <<"lap", 0>> >>
          /\ deleteLog' = << <<"lap", 0>>, <<"frame", 0>>, <<"gray", 0>> >>
          /\ tick' = [outcome |-> "blurry", rect |-> NULL, captured |-> FALSE,
                      case |-> "none",
                      sharpness |-> Some(measureSharpness(lap))]
          /\ run' = 0
          /\ previousRect' = NULL
    /\ UNCHANGED << phase, scaleX, scaleY, detectionTimer, intervalActive,
                    consecutiveStableFrames, captureLog, clearCalls, probe >>

\* processFrame on a frame the gate rejects (lines 118-133)
TickBlurry ==
    /\ intervalActive
    /\ LoopContinues(iterations + 1)
    /\ \E lap \in LapPool :
          /\ IsBlurry(measureSharpness(lap))
          /\ iterations' = iterations + 1
          /\ feedback' = "blurry"
          /\ allocLog' = << <<"frame", 0>>, <<"gray", 0>>, <<"lap", 0>> >>
          /\ deleteLog' = << <<"lap", 0>>, <<"frame", 0>>, <<"gray", 0>> >>
          /\ tick' = [outcome |-> "blurry", rect |-> NULL, captured |-> FALSE,
                      case |-> "none",
                      sharpness |-> Some(measureSharpness(lap))]
          /\ run' = 0
    /\ UNCHANGED << phase, scaleX, scaleY, detectionTimer, intervalActive,
                    previousRect, consecutiveStableFrames, captureLog,
                    clearCalls, probe >>

\* the handles processFrame creates before the loop (lines 119-150) and the
\* ones it deletes after it (lines 230-236); lap lives inside measureSharpness
AllocsBeforeLoop ==
    << <<"frame", 0>>, <<"gray", 0>>, <<"lap", 0>>, <<"blurred", 0>>,
       <<"edges", 0>>, <<"kernel", 0>>, <<"contours", 0>>, <<"hierarchy", 0>> >>
DeletesBeforeLoop == << <<"lap", 0>> >>
DeletesAfterLoop ==
    << <<"frame", 0>>, <<"gray", 0>>, <<"blurred", 0>>, <<"edges", 0>>,
       <<"kernel", 0>>, <<"contours", 0>>, <<"hierarchy", 0>> >>

\* processFrame on a sharp frame (lines 118-124, 135-237), with the call of
\* stabilizeDetection (lines 275-301) when a rectangle was selected
TickSharp ==
    /\ intervalActive
    /\ LoopContinues(iterations + 1)
    /\ \E lap \in LapPool, contours \in ContourLists :
        LET sharpness == measureSharpness(lap)
            loop == ContourLoop(contours, 1,
                                [largestRect |-> NULL, maxArea |-> 0,
                                 allocs |-> AllocsBeforeLoop,
                                 deletes |-> DeletesBeforeLoop],
                                scaleX, scaleY)
        IN  /\ ~IsBlurry(sharpness)
            /\ iterations' = iterations + 1
            /\ allocLog' = loop.allocs
            /\ deleteLog' = loop.deletes \o DeletesAfterLoop
            /\ IF loop.largestRect # NULL
               THEN LET currentRect == loop.largestRect[1]
                        count  == StreakAfter(previousRect, currentRect,
                                              consecutiveStableFrames)
                        stable == IsStable(count)
                        clears == stable /\ TimerIsSet(detectionTimer)
                    IN  /\ feedback' = "hidden"
                        /\ consecutiveStableFrames' = count
                        /\ previousRect' = Some(currentRect)
                        /\ captureLog' =
                              IF stable
                              THEN Append(captureLog,
                                          [rect |-> currentRect, streak |-> count,
                                           sharpness |-> sharpness])
                              ELSE captureLog
                        /\ detectionTimer' = IF clears THEN NULL ELSE detectionTimer
                        /\ intervalActive' = IF clears THEN FALSE ELSE intervalActive
                        /\ clearCalls' = IF clears THEN clearCalls + 1 ELSE clearCalls
                        /\ tick' = [outcome |-> "accept", rect |-> Some(currentRect),
                                    captured |-> stable,
                                    case |-> CaseOf(currentRect),
                                    sharpness |-> Some(sharpness)]
                        /\ run' = RunAfterAccept(currentRect)
               ELSE /\ feedback' = "misframed"
                    /\ tick' = [outcome |-> "miss", rect |-> NULL, captured |-> FALSE,
                                case |-> "none", sharpness |-> Some(sharpness)]
                    /\ run' = 0
                    /\ UNCHANGED << previousRect, consecutiveStableFrames,
                                    captureLog, detectionTimer, intervalActive,
                                    clearCalls >>
    /\ UNCHANGED << phase, scaleX, scaleY, probe >>

Tick == TickCap \/ TickNoFrame \/ TickBlurry \/ TickSharp

Next == StartCameraOk \/ StartCameraFail \/ TickCap \/ TickNoFrame \/ TickBlurry \/ TickSharp

Spec == Init /\ [][Next]_vars

\* setInterval keeps firing the callback while the interval is scheduled
FairSpec == Spec /\ WF_vars(Tick)

(***************************************************************************)
(* The contour loop of processFrame (lines 159-218) taken alone: a session *)
(* whose camera started, one frame's contours, and the loop applied to     *)
(* them.                                                                   *)
(***************************************************************************)
SelectInit ==
    /\ phase = "running"
    /\ \E size \in VideoSizes :
          /\ scaleX = size[1] \div containerWidth
          /\ scaleY = size[2] \div containerHeight
    /\ detectionTimer = Some(TimerId)
    /\ intervalActive = TRUE
    /\ iterations = 0
    /\ previousRect = NULL
    /\ consecutiveStableFrames = 0
    /\ feedback = "none"
    /\ captureLog = <<>>
    /\ clearCalls = 0
    /\ allocLog = <<>>
    /\ deleteLog = <<>>
    /\ tick = [outcome |-> "none", rect |-> NULL, captured |-> FALSE, case |-> "none",
               sharpness |-> NULL]
    /\ run = 0
    /\ \E contours \in GeometryLists :
          probe = [contours |-> contours, largestRect |-> NULL, done |-> FALSE]

SelectBest ==
    /\ ~probe.done
    /\ LET loop == ContourLoop(probe.contours, 1,
                               [largestRect |-> NULL, maxArea |-> 0,
                                allocs |-> AllocsBeforeLoop,
                                deletes |-> DeletesBeforeLoop],
                               scaleX, scaleY)
       IN  probe' = [probe EXCEPT !.largestRect = loop.largestRect, !.done = TRUE]
    /\ UNCHANGED << phase, scaleX, scaleY, detectionTimer, intervalActive,
                    iterations, previousRect, consecutiveStableFrames, feedback,
                    captureLog, clearCalls, allocLog, deleteLog, tick, run >>

SelectSpec == SelectInit /\ [][SelectBest]_vars


(***************************************************************************)
(* Properties.                                                             *)
(***************************************************************************)
Captures == Len(captureLog)

\* the rectangle lies fully inside the container and its area fraction and
\* aspect ratio are within their bounds
WellFramed(r) ==
    /\ r.x >= 0 /\ r.y >= 0
    /\ r.x + r.width <= containerWidth /\ r.y + r.height <= containerHeight
    /\ 10 * r.width * r.height >= 6 * containerWidth * containerHeight
    /\ 10 * r.width * r.height <= 9 * containerWidth * containerHeight
    /\ 10 * r.width >= 14 * r.height
    /\ 10 * r.width <= 17 * r.height

\* C1: after a pass on a sharp frame in which no contour yields an accepted
\* rectangle, consecutiveStableFrames is 0.  The code leaves the counter as
\* it was (lines 223-227 only show the feedback), so this fails.
C1_MissZeroesStreak ==
    tick.outcome = "miss" => consecutiveStableFrames = 0

\* C2: the capture fires on a tick only if that tick and the
\* stabilityThreshold-1 ticks right before it each yielded an accepted
\* rectangle, each near the one of the tick before.  Fails: ticks without a
\* rectangle do not reset the counter, so the accepted ticks need not be
\* consecutive.
C2_CaptureNeedsConsecutiveTicks ==
    tick.captured => run >= stabilityThreshold

\* C3: every capture happened during a tick whose frame has sharpness >=
\* minFocusThreshold and whose selected rectangle is well framed, with
\* consecutiveStableFrames >= stabilityThreshold at that moment; and a tick
\* that captured is a tick that accepted a rectangle.
C3_NoFalseTrigger ==
    /\ \A i \in 1..Len(captureLog) :
          /\ captureLog[i].sharpness.num >= minFocusThreshold * captureLog[i].sharpness.den
          /\ WellFramed(captureLog[i].rect)
          /\ captureLog[i].streak >= stabilityThreshold
    /\ tick.captured => tick.outcome = "accept" /\ tick.rect = Some(captureLog[Captures].rect)

C3_Witness ==
    /\ Captures = 1
    /\ tick.captured
    /\ captureLog[1].sharpness.num = minFocusThreshold * captureLog[1].sharpness.den

\* C4: while every tick since the start yielded an accepted rectangle near
\* the one of the tick before, consecutiveStableFrames equals the number of
\* ticks (1, 2, ..., stabilityThreshold), and the capture happened exactly
\* when that number is stabilityThreshold, on no earlier tick.
C4_StabilityMonotonic ==
    (iterations >= 1 /\ run = iterations) =>
        /\ consecutiveStableFrames = iterations
        /\ iterations <= stabilityThreshold
        /\ Captures = (IF iterations = stabilityThreshold THEN 1 ELSE 0)
        /\ tick.captured = (iterations = stabilityThreshold)

C4_Witness ==
    /\ iterations = stabilityThreshold
    /\ run = stabilityThreshold
    /\ Captures = 1

\* C5: after an accepted rectangle that is not similar to the set
\* previousRect, consecutiveStableFrames = 1 and previousRect is the
\* candidate.  Fails: line 282 sets the counter to 0, so a streak that
\* follows a dissimilar rectangle needs stabilityThreshold + 1 frames.
C5_DissimilarRestartsAtOne ==
    tick.case = "dissimilar" =>
        consecutiveStableFrames = 1 /\ previousRect = tick.rect

\* C6: the capture is emitted at most once, and it has been emitted exactly
\* when consecutiveStableFrames >= stabilityThreshold: no tick leaves the
\* counter at the threshold without capturing.
C6_CaptureExactlyOnce ==
    /\ Captures <= 1
    /\ (consecutiveStableFrames >= stabilityThreshold) <=> (Captures = 1)

C6_Witness ==
    /\ Captures = 1
    /\ consecutiveStableFrames = stabilityThreshold

\* C7: once the capture happened the interval is cleared (in that same
\* tick), the capturing tick is the last callback that ran, and previousRect
\* and consecutiveStableFrames are still what they were at the capture.
C7_CapturedIsTerminal ==
    Captures >= 1 =>
        /\ ~intervalActive
        /\ detectionTimer = NULL
        /\ ~ENABLED Tick
        /\ tick.captured
        /\ previousRect = Some(captureLog[1].rect)
        /\ consecutiveStableFrames = captureLog[1].streak

C7_Witness ==
    /\ Captures >= 1
    /\ ~intervalActive
    /\ iterations > stabilityThreshold

\* C8 as stated: the interval is cleared at most once and only when
\* consecutiveStableFrames reached stabilityThreshold; a blurry frame, a
\* miss or a failed frame capture leaves it scheduled.  Fails: the else
\* branch of the callback (lines 87-89) clears it when the iteration counter
\* reaches its cap.
C8_OnlyCaptureStopsTimer ==
    /\ clearCalls <= 1
    /\ clearCalls = 1 => consecutiveStableFrames >= stabilityThreshold
    /\ (phase = "running" /\ ~intervalActive) => clearCalls = 1
    /\ tick.outcome \in {"noframe", "blurry", "miss"} => intervalActive

\* C8 amended: the interval is cleared at most once, and only by the tick
\* on which consecutiveStableFrames reaches stabilityThreshold or by the
\* callback on which the iteration counter reaches its cap; a blurry frame,
\* a miss or a failed frame capture leaves it scheduled.
C8_CaptureOrCapStopsTimer ==
    /\ clearCalls <= 1
    /\ clearCalls = 1 =>
          \/ tick.captured /\ consecutiveStableFrames >= stabilityThreshold
          \/ tick.outcome = "cap" /\ iterations = MaxIterations
    /\ (phase = "running" /\ ~intervalActive) => clearCalls = 1
    /\ tick.outcome \in {"noframe", "blurry", "miss"} => intervalActive

C8_Witness ==
    /\ clearCalls = 1
    /\ tick.outcome = "cap"
    /\ Captures = 0

Count(log, h) == Cardinality({ i \in 1..Len(log) : log[i] = h })
HandlesOf(log) == { log[i] : i \in 1..Len(log) }

C10_ReleasedExactlyOnce ==
    /\ \A h \in HandlesOf(allocLog) : Count(deleteLog, h) = 1
    /\ \A h \in HandlesOf(deleteLog) : Count(allocLog, h) = 1


\* a step that is one timer callback
IsTick == iterations' = iterations + 1

\* C13: a callback on which captureFrame returns null does not call
\* processFrame (no handle is created, no sharpness measured, the feedback
\* untouched), leaves previousRect and consecutiveStableFrames as they
\* were, captures nothing and leaves the interval scheduled.
C13_FrameCaptureFailureSkipsTick ==
    [][(IsTick /\ tick'.outcome = "noframe") =>
          /\ allocLog' = <<>> /\ deleteLog' = <<>>
          /\ tick'.sharpness = NULL
          /\ UNCHANGED << previousRect, consecutiveStableFrames, captureLog,
                          detectionTimer, feedback, clearCalls >>
          /\ intervalActive']_vars

C13_Witness ==
    /\ tick.outcome = "noframe"
    /\ previousRect # NULL
    /\ consecutiveStableFrames >= 1
    /\ ENABLED Tick

\* C14: a callback that yields no accepted rectangle (frame capture failed,
\* blurry frame, no contour passes validation) leaves previousRect as it
\* was.
C14_MissKeepsPreviousRect ==
    [][(IsTick /\ tick'.outcome \in {"noframe", "blurry", "miss"}) =>
          previousRect' = previousRect]_vars

C14_Witness ==
    /\ tick.outcome = "blurry"
    /\ previousRect # NULL

\* C15: a pass whose sharpness is strictly below minFocusThreshold ends
\* after the gate: no blurred image, edge map, contour set or approx is
\* created, the tracker is not called (its fields, the capture log and the
\* timer are as before) and the interval stays scheduled; a pass whose
\* sharpness is minFocusThreshold or more goes on to the contour search.
C15_BlurryShortCircuit ==
    [][(IsTick /\ tick'.sharpness # NULL) =>
          IF tick'.sharpness[1].num < minFocusThreshold * tick'.sharpness[1].den
          THEN /\ tick'.outcome = "blurry"
               /\ HandlesOf(allocLog') = { <<"frame", 0>>, <<"gray", 0>>, <<"lap", 0>> }
               /\ ~tick'.captured
               /\ UNCHANGED << previousRect, consecutiveStableFrames, captureLog,
                               detectionTimer, clearCalls >>
               /\ intervalActive'
          ELSE /\ tick'.outcome \in {"accept", "miss"}
               /\ <<"contours", 0>> \in HandlesOf(allocLog')]_vars

C15_Witness ==
    /\ tick.outcome = "blurry"
    /\ consecutiveStableFrames >= 2
    /\ intervalActive

\* C16: an accepted rectangle that is the first one (previousRect is none)
\* or is near previousRect (all four differences strictly below 10, 10, 20,
\* 20) raises consecutiveStableFrames by exactly 1 (to 1 for the first) and
\* becomes previousRect.
C16_SimilarAdvancesStreak ==
    [][(IsTick /\ tick'.case \in {"first", "similar"}) =>
          /\ consecutiveStableFrames' = consecutiveStableFrames + 1
          /\ tick'.case = "first" => consecutiveStableFrames' = 1
          /\ previousRect' = tick'.rect]_vars

C16_Witness ==
    /\ tick.case = "similar"
    /\ consecutiveStableFrames = 3
    /\ run < consecutiveStableFrames

\* C17: the iteration counter never exceeds its cap; the callback on which
\* it reaches the cap clears the interval and processes no frame; and under
\* fair timer firing every started loop eventually stops, by capture or by
\* the cap.
C17_IterationCapAndTermination ==
    /\ [](iterations <= MaxIterations)
    /\ []((iterations = MaxIterations) =>
             (~intervalActive /\ ~ENABLED Tick /\ tick.outcome = "cap"
                /\ allocLog = <<>>))
    /\ [](phase = "running" => <>(~intervalActive))

C17_Witness ==
    /\ iterations = MaxIterations
    /\ ~intervalActive
    /\ Captures = 0
    /\ previousRect # NULL

\* C19: in every reachable state 0 <= consecutiveStableFrames <=
\* stabilityThreshold.
C19_StreakBound ==
    consecutiveStableFrames >= 0 /\ consecutiveStableFrames <= stabilityThreshold

C19_Witness ==
    /\ consecutiveStableFrames = stabilityThreshold
    /\ iterations = MaxIterations - 1

\* C20: previousRect is none exactly as long as no accepted rectangle was
\* fed to the tracker, and then consecutiveStableFrames = 0; once set it is
\* the most recently accepted rectangle (it changes only on a callback that
\* accepts one, to that one), it is inside the container with area fraction
\* and aspect ratio within bounds, and it never becomes none again.
C20_PreviousRectValid ==
    /\ [](previousRect = NULL =>
             (consecutiveStableFrames = 0 /\ tick.outcome # "accept" /\ run = 0))
    /\ [](previousRect # NULL => WellFramed(previousRect[1]))
    /\ [](tick.outcome = "accept" => previousRect = tick.rect)
    /\ [][previousRect' # previousRect =>
             (IsTick /\ tick'.outcome = "accept" /\ previousRect' = tick'.rect)]_vars
    /\ [][previousRect # NULL => previousRect' # NULL]_vars

C20_Witness ==
    /\ previousRect # NULL
    /\ tick.outcome = "miss"
    /\ scaleX = 2

(***************************************************************************)
(* Properties of the contour loop, under SelectSpec.  They are stated on   *)
(* the native bounding rectangles, with the divisions by the scale         *)
(* multiplied out.                                                         *)
(***************************************************************************)
\* the rescaled rectangle of native rectangle r is inside the container and
\* its area fraction is in [0.6, 0.9] and its aspect ratio in [1.4, 1.7]
FramedPerSpec(r) ==
    /\ r.x >= 0 /\ r.y >= 0
    /\ r.x + r.width <= containerWidth * scaleX
    /\ r.y + r.height <= containerHeight * scaleY
    /\ 10 * r.width * r.height >= 6 * containerWidth * containerHeight * scaleX * scaleY
    /\ 10 * r.width * r.height <= 9 * containerWidth * containerHeight * scaleX * scaleY
    /\ 10 * r.width * scaleY >= 14 * r.height * scaleX
    /\ 10 * r.width * scaleY <= 17 * r.height * scaleX

\* s is native rectangle r in container space
IsRescaled(s, r) ==
    /\ s.x * scaleX = r.x /\ s.y * scaleY = r.y
    /\ s.width * scaleX = r.width /\ s.height * scaleY = r.height

Survives(c) == c.vertices = 4 /\ c.convex /\ FramedPerSpec(c.rect)

\* C11: the rescaled bounding rectangle of a convex 4-vertex polygon, alone
\* in its frame, is accepted if and only if it is inside the container
\* (edges included) and its area fraction and aspect ratio are within their
\* bounds (bounds included); the accepted rectangle is the rescaled one.
C11_GeometryValidation ==
    (probe.done /\ Len(probe.contours) = 1
        /\ probe.contours[1].vertices = 4 /\ probe.contours[1].convex) =>
        /\ (probe.largestRect # NULL) <=> FramedPerSpec(probe.contours[1].rect)
        /\ probe.largestRect # NULL =>
              IsRescaled(probe.largestRect[1], probe.contours[1].rect)

\* accepted with the aspect ratio exactly 1.4 and the right and bottom edges
\* on the container's
C11_Witness ==
    /\ probe.done /\ Len(probe.contours) = 1
    /\ probe.largestRect # NULL
    /\ 10 * probe.contours[1].rect.width * scaleY
          = 14 * probe.contours[1].rect.height * scaleX
    /\ probe.contours[1].rect.x + probe.contours[1].rect.width = containerWidth * scaleX
    /\ probe.contours[1].rect.y + probe.contours[1].rect.height = containerHeight * scaleY

\* C12: the rectangle the loop leaves in largestRect is the rescaled
\* rectangle of the contour of maximal width*height among those that are
\* 4-vertex, convex and valid, the first of them when several have that
\* area; it is null exactly when no contour survives.
C12_CandidateSelection ==
    probe.done =>
        LET cs    == probe.contours
            valid == { i \in 1..Len(cs) : Survives(cs[i]) }
            area(i) == cs[i].rect.width * cs[i].rect.height
            best  == { i \in valid : \A j \in valid :
                          area(j) < area(i) \/ (area(j) = area(i) /\ i <= j) }
        IN  IF valid = {}
            THEN probe.largestRect = NULL
            ELSE /\ probe.largestRect # NULL
                 /\ \E i \in best : IsRescaled(probe.largestRect[1], cs[i].rect)

\* two valid contours of the same area and different rectangles, then a
\* larger one first and a smaller one second
C12_Witness ==
    /\ probe.done /\ Len(probe.contours) = 2
    /\ Survives(probe.contours[1]) /\ Survives(probe.contours[2])
    /\ probe.contours[1].rect # probe.contours[2].rect
    /\ probe.contours[1].rect.width * probe.contours[1].rect.height
          = probe.contours[2].rect.width * probe.contours[2].rect.height
    /\ IsRescaled(probe.largestRect[1], probe.contours[1].rect)

=============================================================================
